---- MODULE Spec2Model ----
(***************************************************************************)
(* A model of corr_comp.py: the Command runner, the wrappers around the    *)
(* external binaries (wb_command, cluster, fslmeants), the correlation     *)
(* extraction of pearson_corr and the orchestrator corr_comp.              *)
(*                                                                         *)
(* Paths and file names are TLA+ strings, handled as the script handles    *)
(* them (slices, concatenation, substring tests).  The file system is a    *)
(* set of directories and a function from the paths of the existing files  *)
(* to their contents.  Floating-point values are integers in thousandths,  *)
(* with NaN a value of its own.                                            *)
(***************************************************************************)
EXTENDS Integers, Sequences, FiniteSets, TLC

\* ------------------------------------------------------------------ bounds
\* random.randint(0, n) draws from 0..n; the model draws from 0..RandMax.
RandMax == 1
\* Exit codes of a spawned process range over 0..MaxExit.
MaxExit == 1
\* Entries of the matrices given to the extraction range over -MaxEntry..MaxEntry.
MaxEntry == 2
\* Command.run calls with an env argument: at most MaxEnvRuns in a row.
MaxEnvRuns == 3

\* ------------------------------------------------------- program constants
\* np.corrcoef of two 1-D sequences is a CorrDim x CorrDim matrix.
CorrDim == 2
\* Bytes of one float64 element (the unit of ndarray.strides).
ItemSize == 8
\* The element of the flattened sequence that pearson_corr returns ([1]).
CoeffIndex == 1

\* ------------------------------------------------------------ str helpers
\* Python's `sub in s` for strings.
Contains(sub, s) ==
    \E i \in 0..(Len(s) - Len(sub)) : SubSeq(s, i + 1, i + Len(sub)) = sub

\* Python's s[:-k].
DropLast(s, k) == SubSeq(s, 1, Len(s) - k)

\* Python's s.rfind(c) + 1 for a one-character c: 0 when c does not occur.
RFind1(s, c) ==
    LET I == {i \in 1..Len(s) : SubSeq(s, i, i) = c}
    IN  IF I = {} THEN 0 ELSE CHOOSE i \in I : \A j \in I : j <= i

RECURSIVE RStripSlash(_)
RStripSlash(s) ==
    IF Len(s) > 0 /\ SubSeq(s, Len(s), Len(s)) = "/"
    THEN RStripSlash(DropLast(s, 1))
    ELSE s

\* os.path.dirname: the head up to the last slash, trailing slashes stripped
\* unless the head is all slashes.
Dirname(p) ==
    LET head == SubSeq(p, 1, RFind1(p, "/"))
    IN  IF head # "" /\ RStripSlash(head) # "" THEN RStripSlash(head) ELSE head

\* os.path.join(a, b) for a relative b.
Join(a, b) == IF a = "/" THEN a \o b ELSE a \o "/" \o b

IsAbs(p) == Len(p) > 0 /\ SubSeq(p, 1, 1) = "/"

\* os.path.abspath(p) in working directory wd (the paths of the model hold
\* no "." or ".." component, so normpath changes nothing but a trailing slash).
Abspath(p, wd) == IF IsAbs(p) THEN p ELSE IF p = "" THEN wd ELSE Join(wd, p)

\* os.path.splitext(p)[0]: p up to the last dot of its last component.
SplitextRoot(p) ==
    LET dot == RFind1(p, ".")
    IN  IF dot > RFind1(p, "/") + 1 THEN SubSeq(p, 1, dot - 1) ELSE p

StartsWith(s, pre) == Len(s) >= Len(pre) /\ SubSeq(s, 1, Len(pre)) = pre

\* ------------------------------------------------------------------ floats
NaN == 1000 * 1000
Abs(v) == IF v < 0 THEN 0 - v ELSE v

\* The fractional digits of str(float): three digits, trailing zeros dropped,
\* at least one digit kept.
FracDigits(f) ==
    LET d1 == f \div 100
        d2 == (f \div 10) % 10
        d3 == f % 10
    IN  IF d3 # 0 THEN ToString(d1) \o ToString(d2) \o ToString(d3)
        ELSE IF d2 # 0 THEN ToString(d1) \o ToString(d2)
        ELSE ToString(d1)

\* str(x) of a float x (write_to_file: text = str(text)).
FloatStr(v) ==
    IF v = NaN THEN "nan"
    ELSE (IF v < 0 THEN "-" ELSE "")
         \o ToString(Abs(v) \div 1000) \o "." \o FracDigits(Abs(v) % 1000)

\* ---------------------------------------------------------------- matrices
\* A matrix is a sequence of rows; an index below is 1-based where numpy's
\* is 0-based.
Rows(A) == Len(A)
Cols(A) == Len(A[1])

\* np.tril(A, k): the entries above the k-th diagonal become 0.
Tril(A, k) ==
    [i \in 1..Rows(A) |-> [j \in 1..Cols(A) |-> IF j <= i + k THEN A[i][j] ELSE 0]]

\* A.ravel() and A.flatten(order='C') of a C-contiguous matrix: row-major.
Ravel(A) ==
    [q \in 1..(Rows(A) * Cols(A)) |->
        A[((q - 1) \div Cols(A)) + 1][((q - 1) % Cols(A)) + 1]]

\* A.strides of a C-contiguous float64 matrix, in bytes.
Strides(A) == <<Cols(A) * ItemSize, ItemSize>>

\* np.lib.stride_tricks.as_strided(x, shape, strides): element (i, j), 0-based,
\* is read i*strides[0] + j*strides[1] bytes after the first element of x.
AsStrided(x, shape, strides) ==
    [i \in 1..shape[1] |->
        [j \in 1..shape[2] |->
            x[(((i - 1) * strides[1] + (j - 1) * strides[2]) \div ItemSize) + 1]]]

\* B.reshape(m, -1): the row-major elements of B in m rows.
Reshape(B, m) ==
    LET flat == Ravel(B)
        w    == Len(flat) \div m
    IN  [i \in 1..m |-> [j \in 1..w |-> flat[(i - 1) * w + j]]]

\* remove_diagonal: the buffer is A.ravel()[1:], read with the row stride
\* s0 + s1.
remove_diagonal_noskip(A) ==
    LET m  == Rows(A)
        st == Strides(A)
    IN  Reshape(AsStrided(Ravel(A), <<m - 1, m>>, <<st[1] + st[2], st[2]>>), m)
remove_diagonal(A) ==
    LET m  == Rows(A)
        st == Strides(A)
    IN  Reshape(AsStrided(Tail(Ravel(A)), <<m - 1, m>>, <<st[1] + st[2], st[2]>>), m)

\* pearson_corr's extraction from the matrix np.corrcoef returned.
PearsonExtract(C) == Ravel(remove_diagonal(Tril(C, 0)))[CoeffIndex + 1]

\* ------------------------------------------------------------------- state
VARIABLES
    args,        \* the arguments of the corr_comp call
    pc,          \* the position in corr_comp
    call,        \* the call cii_meants is at: "nii", "mask", "meants"
    step,        \* "idle", "run" (Command.run pending), "ret" (run returned)
    wrapper,     \* the wrapper whose Command is pending or has returned
    cmd,         \* the pending Command: program and arguments
    ctn,         \* the locals of the latest cifti_to_nifti call
    runRet,      \* what Command.run returned
    exit_status, \* the wrapper's local after unpacking run's result
    cwd,         \* the process's current working directory
    dirs,        \* the directories that exist
    files,       \* the files that exist, each with its content
    loc,         \* the locals of corr_comp
    exc,         \* the exception that escaped corr_comp, or "none"
    runs,        \* the Command.run calls so far, in order
    written,     \* the write_to_file calls so far, in order
    ret,         \* what corr_comp returned
    cstage,      \* the position in the extraction of pearson_corr
    cmat,        \* the matrix given to the extraction
    cval,        \* the value the extraction has reached
    host,        \* what main finds: the platform and the binaries on the path
    exit_code,   \* the status main exited with, or NoExit
    environ,     \* os.environ of the calling process
    spawnEnvs    \* the environment given to each subprocess, in order

pvars == <<args, pc, call, step, wrapper, cmd, ctn, runRet, exit_status, cwd,
           dirs, files, loc, exc, runs, written, ret>>
cvars == <<cstage, cmat, cval>>
mvars == <<host, exit_code>>
evars == <<environ, spawnEnvs>>
vars == <<args, pc, call, step, wrapper, cmd, ctn, runRet, exit_status, cwd,
          dirs, files, loc, exc, runs, written, ret, cstage, cmat, cval,
          host, exit_code, environ, spawnEnvs>>

\* ------------------------------------------------------------------ inputs
StartDir == "/home"
Cii == "ts.dtseries.nii"
SeedMask == "seed.dscalar.nii"
StatMask == "stat.dscalar.nii"
OutPrefixes == {"res", "out/res"}
\* Thresholds in hundredths: 0 (falsy) and the command line's default 1.77.
Thresholds == {0, 177}
StdoutArgs == {"", "cap.txt"}
\* A directory of an earlier run, under a name randint can draw again.
OldTmpDir == "/home/tmp_dir_0"
OldFile == "/home/tmp_dir_0/old.txt"
OptionalDirs == {"/home/out", OldTmpDir}

\* The host the pipeline runs on when main's checks are not in question.
GoodHost == [platform |-> "Linux", fslmeants |-> TRUE, wb_command |-> TRUE]
\* The process has not exited.
NoExit == 0 - 1
\* The environment the process inherited.
BaseEnv == [k \in {"PATH"} |-> "/usr/bin"]

NoFiles == [p \in {} |-> ""]
NoCmd == [prog |-> "", input |-> "", mask |-> "", out |-> "", thresh |-> 0, stdout |-> ""]
NoCtn == [cii |-> "", out |-> "", thresh |-> 0, out_tmp |-> "", out_txt |-> ""]
NoRet == [kind |-> "none", rc |-> 0]
NoLoc == [cii |-> "", seed_mask |-> "", stat_mask |-> "", out_dir |-> "",
          cwd |-> "", tmp_dir |-> "", mean_ts_1 |-> "", mean_ts_2 |-> "",
          corr_coeff |-> 0, text_file |-> ""]
NoResult == [corr_coeff |-> 0, text_file |-> ""]

\* ------------------------------------------------------------- file system
Exists(p) == p \in dirs \/ p \in DOMAIN files

Put(fs, p, c) == [q \in DOMAIN fs \cup {p} |-> IF q = p THEN c ELSE fs[q]]

Remove(fs, P) == [q \in DOMAIN fs \ P |-> fs[q]]

\* os.rename(src, dst) of an existing file src.
Rename(fs, src, dst) == Remove(Put(fs, dst, fs[src]), {src})

Under(d, p) == StartsWith(p, d \o "/")

\* os.makedirs(p): p and every missing ancestor.
RECURSIVE Makedirs(_, _)
Makedirs(ds, p) ==
    IF p \in ds \/ p = "" \/ p = "/" THEN ds
    ELSE Makedirs(ds, Dirname(p)) \cup {p}

\* shutil.rmtree(d): d and everything under it.
RmTreeDirs(ds, d) == {q \in ds : q # d /\ ~Under(d, q)}
RmTreeFiles(fs, d) == Remove(fs, {q \in DOMAIN fs : Under(d, q)})

\* The contents the external tools produce.
Nifti(cii) == "nifti(" \o cii \o ")"
Clustered(c, th) == "cluster(" \o c \o "," \o ToString(th) \o ")"
MeanTs(img, mask) == "meants(" \o img \o "," \o mask \o ")"
Incomplete == "incomplete"

\* ------------------------------------------------------------ construction
Init ==
    /\ args \in [out_prefix : OutPrefixes, thresh : Thresholds, dryrun : BOOLEAN,
                 keep_tmp_dir : BOOLEAN, stdout : StdoutArgs]
    /\ pc = "resolve"
    /\ call = "none"
    /\ step = "idle"
    /\ wrapper = "none"
    /\ cmd = NoCmd
    /\ ctn = NoCtn
    /\ runRet = NoRet
    /\ exit_status = 0
    /\ cwd = StartDir
    /\ dirs \in {{"/", StartDir} \cup D : D \in SUBSET OptionalDirs}
    /\ files = IF OldTmpDir \in dirs THEN Put(NoFiles, OldFile, "old") ELSE NoFiles
    /\ loc = NoLoc
    /\ exc = "none"
    /\ runs = <<>>
    /\ written = <<>>
    /\ ret = NoResult
    /\ cstage = "off"
    /\ cmat = <<>>
    /\ cval = <<>>
    /\ host = GoodHost
    /\ exit_code = NoExit
    /\ environ = BaseEnv
    /\ spawnEnvs = <<>>

\* An exception leaves corr_comp: nothing catches it.
RaiseThenCleanup(e) ==
    /\ exc' = e
    /\ pc' = "cleanup"
Raise(e) ==
    /\ exc' = e
    /\ pc' = "raised"

\* --------------------------------------------------------------- corr_comp
\* `'' in os.path.dirname(out_prefix)`: a substring test on the directory
\* component.
OutDir(out_prefix, wd) ==
    IF Contains("", Dirname(out_prefix)) THEN wd
    ELSE Abspath(Dirname(out_prefix), wd)

CorrCompResolve ==
    /\ pc = "resolve"
    /\ loc' = [loc EXCEPT !.cii = Abspath(Cii, cwd),
                          !.seed_mask = Abspath(SeedMask, cwd),
                          !.stat_mask = Abspath(StatMask, cwd),
                          !.out_dir = OutDir(args.out_prefix, cwd)]
    /\ pc' = "stage"
    /\ UNCHANGED <<args, call, step, wrapper, cmd, ctn, runRet, exit_status, cwd,
                   dirs, files, exc, runs, written, ret, cvars, mvars, evars>>

TmpDirName(r) == "tmp_dir_" \o ToString(r)

CorrCompStage ==
    /\ pc = "stage"
    /\ \E r \in 0..RandMax :
        LET tmp_dir == Join(loc.out_dir, TmpDirName(r))
        IN  /\ loc' = [loc EXCEPT !.cwd = cwd, !.tmp_dir = tmp_dir]
            /\ dirs' = IF Exists(tmp_dir) THEN dirs ELSE Makedirs(dirs, tmp_dir)
            /\ cwd' = tmp_dir
    /\ pc' = "seed"
    /\ call' = "nii"
    /\ UNCHANGED <<args, step, wrapper, cmd, ctn, runRet, exit_status, files, exc,
                   runs, written, ret, cvars, mvars, evars>>

\* The out_prefix, mask and thresh corr_comp gives to cii_meants in a branch.
BranchPrefix(branch) == IF branch = "seed" THEN "mask.seed" ELSE "mask.stat"
BranchMask(branch) == IF branch = "seed" THEN loc.seed_mask ELSE loc.stat_mask
BranchThreshBoth(branch, thresh) == thresh
BranchThresh(branch, thresh) == IF branch = "seed" THEN 0 ELSE thresh

\* -------------------------------------------------------------- cii_meants
\* The cii, out and thresh cii_meants gives to its two cifti_to_nifti calls.
BridgeCii(which, branch) == IF which = "nii" THEN loc.cii ELSE BranchMask(branch)
BridgeOut(which, branch) ==
    BranchPrefix(branch) \o (IF which = "nii" THEN ".nii.gz" ELSE ".mask.nii.gz")
BridgeThreshSwapped(which, thresh) == IF which = "nii" THEN thresh ELSE 0
BridgeThresh(which, thresh) == IF which = "nii" THEN 0 ELSE thresh

\* ---------------------------------------------------------- cifti_to_nifti
OutTmp(out) ==
    IF Contains(".nii.gz", out) THEN DropLast(out, 7) \o ".tmp.nii.gz"
    ELSE IF Contains(".nii", out) THEN DropLast(out, 4) \o ".tmp.nii"
    ELSE out \o ".tmp"
OutTxt(out) ==
    IF Contains(".nii.gz", out) THEN DropLast(out, 7) \o ".cluster.txt"
    ELSE IF Contains(".nii", out) THEN DropLast(out, 4) \o ".cluster.txt"
    ELSE out \o ".cluster.txt"

\* `if thresh:`
TruthyNotNone(thresh) == TRUE
Truthy(thresh) == thresh # 0

\* cifti_to_nifti is called: the names are formatted and the wb_command
\* Command is built.
CiftiToNiftiCall ==
    /\ pc \in {"seed", "stat"}
    /\ call \in {"nii", "mask"}
    /\ step = "idle"
    /\ LET out == BridgeOut(call, pc)
           cii == BridgeCii(call, pc)
       IN  /\ ctn' = [cii |-> cii, out |-> out,
                      thresh |-> BridgeThresh(call, BranchThresh(pc, args.thresh)),
                      out_tmp |-> OutTmp(out), out_txt |-> OutTxt(out)]
           /\ cmd' = [prog |-> "wb_command", input |-> cii, mask |-> "",
                      out |-> OutTmp(out), thresh |-> 0, stdout |-> args.stdout]
    /\ wrapper' = "cifti_to_nifti"
    /\ step' = "run"
    /\ UNCHANGED <<args, pc, call, runRet, exit_status, cwd, dirs, files, loc, exc,
                   runs, written, ret, cvars, mvars, evars>>

\* ------------------------------------------------------------- Command.run
\* The files a program reads from the working directory.
Reads(c) ==
    IF c.prog = "cluster" THEN {c.input}
    ELSE IF c.prog = "fslmeants" THEN {c.input, c.mask}
    ELSE {}

InputsExist(c, fs, wd) == \A f \in Reads(c) : Abspath(f, wd) \in DOMAIN fs

\* What a spawned process can do: exit code 0 with its output written, or a
\* non-zero exit code with its output missing or incomplete.
Outcomes(c, fs, wd) ==
    {o \in [rc : 0..MaxExit, wrote : BOOLEAN] :
        /\ o.rc = 0 => o.wrote /\ InputsExist(c, fs, wd)
        /\ ~InputsExist(c, fs, wd) => ~o.wrote}

Produced(c, fs, wd) ==
    IF c.prog = "wb_command" THEN Nifti(c.input)
    ELSE IF c.prog = "cluster" THEN Clustered(fs[Abspath(c.input, wd)], c.thresh)
    ELSE MeanTs(fs[Abspath(c.input, wd)], fs[Abspath(c.mask, wd)])

\* subprocess.Popen and communicate.
Spawn(c, fs, wd, o) ==
    IF o.wrote
    THEN Put(fs, Abspath(c.out, wd), IF o.rc = 0 THEN Produced(c, fs, wd) ELSE Incomplete)
    ELSE fs

\* `if stdout:` the capture is written to stdout and to its sibling .err.
Capture(c, fs, wd) ==
    IF c.stdout # ""
    THEN Put(Put(fs, Abspath(c.stdout, wd), "stdout"),
             Abspath(SplitextRoot(c.stdout) \o ".err", wd), "stderr")
    ELSE fs

\* `if p.returncode:` logs an error; nothing is raised.
ReturncodeRaisesChecked(rc) == rc # 0
ReturncodeRaises(rc) == FALSE

\* What run returns: 0 in a dry run, a 4-tuple otherwise.
RunValue(dryrun, rc) ==
    IF dryrun THEN [kind |-> "int", rc |-> 0] ELSE [kind |-> "tuple", rc |-> rc]

RunRecord(spawned) ==
    [prog |-> cmd.prog, input |-> cmd.input, mask |-> cmd.mask, out |-> cmd.out,
     thresh |-> cmd.thresh, stdout |-> cmd.stdout, phase |-> pc, spawned |-> spawned]

CommandRun ==
    /\ pc \in {"seed", "stat"}
    /\ step = "run"
    /\ IF args.dryrun
       THEN /\ runRet' = RunValue(TRUE, 0)
            /\ runs' = Append(runs, RunRecord(FALSE))
            /\ step' = "ret"
            /\ UNCHANGED <<files, pc, exc>>
       ELSE \E o \in Outcomes(cmd, files, cwd) :
            /\ files' = Capture(cmd, Spawn(cmd, files, cwd, o), cwd)
            /\ runs' = Append(runs, RunRecord(TRUE))
            /\ IF ReturncodeRaises(o.rc)
               THEN /\ Raise("CalledProcessError")
                    /\ UNCHANGED <<runRet, step>>
               ELSE /\ runRet' = RunValue(FALSE, o.rc)
                    /\ step' = "ret"
                    /\ UNCHANGED <<pc, exc>>
    /\ UNCHANGED <<args, call, wrapper, cmd, ctn, exit_status, cwd, dirs, loc,
                   written, ret, cvars, mvars, evars>>

\* `[exit_status, log_file, stdout, stderr] = ...run(...)`: an int does not
\* unpack.
Unpacks(r) == r.kind = "tuple"

NextCallSkipMask(which) == "meants"
NextCall(which) == IF which = "nii" THEN "mask" ELSE "meants"

\* cifti_to_nifti after its Command.run returned: the result is unpacked, then
\* either threshold_cifti is called or the intermediate raster is renamed.
CiftiToNiftiBranch ==
    /\ pc \in {"seed", "stat"}
    /\ wrapper = "cifti_to_nifti"
    /\ step = "ret"
    /\ IF ~Unpacks(runRet)
       THEN /\ Raise("TypeError")
            /\ UNCHANGED <<call, step, wrapper, cmd, exit_status, files>>
       ELSE /\ exit_status' = runRet.rc
            /\ IF Truthy(ctn.thresh)
               THEN /\ cmd' = [prog |-> "cluster", input |-> ctn.out_tmp, mask |-> "",
                               out |-> ctn.out, thresh |-> ctn.thresh,
                               stdout |-> ctn.out_txt]
                    /\ wrapper' = "threshold_cifti"
                    /\ step' = "run"
                    /\ UNCHANGED <<pc, exc, call, files>>
               ELSE IF Abspath(ctn.out_tmp, cwd) \in DOMAIN files
               THEN /\ files' = Rename(files, Abspath(ctn.out_tmp, cwd),
                                       Abspath(ctn.out, cwd))
                    /\ call' = NextCall(call)
                    /\ wrapper' = "none"
                    /\ step' = "idle"
                    /\ UNCHANGED <<pc, exc, cmd>>
               ELSE /\ Raise("FileNotFoundError")
                    /\ UNCHANGED <<call, step, wrapper, cmd, files>>
    /\ UNCHANGED <<args, ctn, runRet, cwd, dirs, loc, runs, written, ret, cvars,
                   mvars, evars>>

\* threshold_cifti after its Command.run returned: it returns out, and so does
\* cifti_to_nifti.
ThresholdCiftiReturn ==
    /\ pc \in {"seed", "stat"}
    /\ wrapper = "threshold_cifti"
    /\ step = "ret"
    /\ IF ~Unpacks(runRet)
       THEN /\ Raise("TypeError")
            /\ UNCHANGED <<call, step, wrapper, exit_status>>
       ELSE /\ exit_status' = runRet.rc
            /\ call' = NextCall(call)
            /\ wrapper' = "none"
            /\ step' = "idle"
            /\ UNCHANGED <<pc, exc>>
    /\ UNCHANGED <<args, cmd, ctn, runRet, cwd, dirs, files, loc, runs, written,
                   ret, cvars, mvars, evars>>

\* ------------------------------------------------------------------ meants
MeantsCall ==
    /\ pc \in {"seed", "stat"}
    /\ call = "meants"
    /\ step = "idle"
    /\ cmd' = [prog |-> "fslmeants", input |-> BranchPrefix(pc) \o ".nii.gz",
               mask |-> BranchPrefix(pc) \o ".mask.nii.gz",
               out |-> BranchPrefix(pc) \o ".mat.txt", thresh |-> 0,
               stdout |-> args.stdout]
    /\ wrapper' = "meants"
    /\ step' = "run"
    /\ UNCHANGED <<args, pc, call, ctn, runRet, exit_status, cwd, dirs, files, loc,
                   exc, runs, written, ret, cvars, mvars, evars>>

\* meants after its Command.run returned: it returns out, cii_meants returns
\* it, and corr_comp goes on to its next statement.
MeantsReturn ==
    /\ pc \in {"seed", "stat"}
    /\ wrapper = "meants"
    /\ step = "ret"
    /\ IF ~Unpacks(runRet)
       THEN /\ Raise("TypeError")
            /\ UNCHANGED <<call, step, wrapper, exit_status, loc>>
       ELSE /\ exit_status' = runRet.rc
            /\ wrapper' = "none"
            /\ step' = "idle"
            /\ exc' = exc
            /\ IF pc = "seed"
               THEN /\ loc' = [loc EXCEPT !.mean_ts_1 = cmd.out]
                    /\ pc' = "stat"
                    /\ call' = "nii"
               ELSE /\ loc' = [loc EXCEPT !.mean_ts_2 = cmd.out]
                    /\ pc' = "correlate"
                    /\ call' = "none"
    /\ UNCHANGED <<args, cmd, ctn, runRet, cwd, dirs, files, runs, written, ret,
                   cvars, mvars, evars>>

\* ------------------------------------------------------------ pearson_corr
\* The off-diagonal values np.corrcoef can give, in thousandths, and NaN (a
\* sequence of zero variance).
CorrVals == {0 - 1000, 0, 250, 1000, NaN}
Corrcoef(r) ==
    LET d == IF r = NaN THEN NaN ELSE 1000
    IN  <<<<d, r>>, <<r, d>>>>

\* np.loadtxt raises on a missing file, and loadtxt or np.corrcoef on text
\* that is no pair of equal-length numeric sequences.
PearsonCorr ==
    /\ pc = "correlate"
    /\ \/ /\ \/ Abspath(loc.mean_ts_1, cwd) \notin DOMAIN files
             \/ Abspath(loc.mean_ts_2, cwd) \notin DOMAIN files
          /\ Raise("OSError")
          /\ loc' = loc
       \/ /\ Abspath(loc.mean_ts_1, cwd) \in DOMAIN files
          /\ Abspath(loc.mean_ts_2, cwd) \in DOMAIN files
          /\ \/ /\ Raise("ValueError")
                /\ loc' = loc
             \/ \E r \in CorrVals :
                /\ loc' = [loc EXCEPT !.corr_coeff = PearsonExtract(Corrcoef(r))]
                /\ pc' = "cleanup"
                /\ exc' = exc
    /\ UNCHANGED <<args, call, step, wrapper, cmd, ctn, runRet, exit_status, cwd,
                   dirs, files, runs, written, ret, cvars, mvars, evars>>

\* ---------------------------------------------------------------- clean-up
\* `if not keep_tmp_dir:`
RemovesAlways(keep_tmp_dir) == TRUE
Removes(keep_tmp_dir) == ~keep_tmp_dir

\* os.chdir(cwd) in either branch, then shutil.rmtree(tmp_dir) unless the
\* directory is kept; rmtree can fail.
CorrCompCleanup ==
    /\ pc = "cleanup"
    /\ cwd' = loc.cwd
    /\ IF Removes(args.keep_tmp_dir)
       THEN \/ /\ dirs' = RmTreeDirs(dirs, loc.tmp_dir)
               /\ files' = RmTreeFiles(files, loc.tmp_dir)
               /\ pc' = "persist"
               /\ exc' = exc
            \/ /\ Raise("OSError")
               /\ UNCHANGED <<dirs, files>>
       ELSE /\ pc' = "persist"
            /\ UNCHANGED <<dirs, files, exc>>
    /\ UNCHANGED <<args, call, step, wrapper, cmd, ctn, runRet, exit_status, loc,
                   runs, written, ret, cvars, mvars, evars>>

\* ----------------------------------------------------------- write_to_file
TextFileShort(out_prefix) == out_prefix \o ".txt"
TextFile(out_prefix) == out_prefix \o ".pear_corr.txt"

\* `text = str(text)`, then `file.write(text + "\n")`.
WriteText(text) == FloatStr(text) \o "\n"

\* open(out_file, "w") needs the directory of out_file.
CorrCompPersist ==
    /\ pc = "persist"
    /\ LET text_file == TextFile(args.out_prefix)
           path      == Abspath(text_file, cwd)
       IN  IF Dirname(path) \in dirs
           THEN /\ files' = Put(files, path, WriteText(loc.corr_coeff))
                /\ written' = Append(written, [out_file |-> text_file,
                                               text |-> WriteText(loc.corr_coeff)])
                /\ loc' = [loc EXCEPT !.text_file = text_file]
                /\ ret' = [corr_coeff |-> loc.corr_coeff, text_file |-> text_file]
                /\ pc' = "done"
                /\ exc' = exc
           ELSE /\ Raise("FileNotFoundError")
                /\ UNCHANGED <<files, written, loc, ret>>
    /\ UNCHANGED <<args, call, step, wrapper, cmd, ctn, runRet, exit_status, cwd,
                   dirs, runs, cvars, mvars, evars>>

Next ==
    \/ CorrCompResolve
    \/ CorrCompStage
    \/ CiftiToNiftiCall
    \/ CommandRun
    \/ CiftiToNiftiBranch
    \/ ThresholdCiftiReturn
    \/ MeantsCall
    \/ MeantsReturn
    \/ PearsonCorr
    \/ CorrCompCleanup
    \/ CorrCompPersist

Spec == Init /\ [][Next]_vars

\* ------------------------------------------- the extraction, step by step
Entries == (0 - MaxEntry)..MaxEntry
Matrices == [1..CorrDim -> [1..CorrDim -> Entries]]

InitCorr ==
    /\ cmat \in Matrices
    /\ cval = cmat
    /\ cstage = "corrcoef"
    /\ args = [out_prefix |-> "res", thresh |-> 0, dryrun |-> FALSE,
               keep_tmp_dir |-> FALSE, stdout |-> ""]
    /\ pc = "off"
    /\ call = "none"
    /\ step = "idle"
    /\ wrapper = "none"
    /\ cmd = NoCmd
    /\ ctn = NoCtn
    /\ runRet = NoRet
    /\ exit_status = 0
    /\ cwd = StartDir
    /\ dirs = {"/", StartDir}
    /\ files = NoFiles
    /\ loc = NoLoc
    /\ exc = "none"
    /\ runs = <<>>
    /\ written = <<>>
    /\ ret = NoResult
    /\ host = GoodHost
    /\ exit_code = NoExit
    /\ environ = BaseEnv
    /\ spawnEnvs = <<>>

\* np.tril(C, k=0)
CorrTril ==
    /\ cstage = "corrcoef"
    /\ cval' = Tril(cval, 0)
    /\ cstage' = "tril"
    /\ UNCHANGED <<cmat, pvars, mvars, evars>>

CorrRemoveDiagonal ==
    /\ cstage = "tril"
    /\ cval' = remove_diagonal(cval)
    /\ cstage' = "nodiag"
    /\ UNCHANGED <<cmat, pvars, mvars, evars>>

\* .flatten(order='C')
CorrFlatten ==
    /\ cstage = "nodiag"
    /\ cval' = Ravel(cval)
    /\ cstage' = "flat"
    /\ UNCHANGED <<cmat, pvars, mvars, evars>>

\* [1]
CorrIndex ==
    /\ cstage = "flat"
    /\ cval' = cval[CoeffIndex + 1]
    /\ cstage' = "coeff"
    /\ UNCHANGED <<cmat, pvars, mvars, evars>>

NextCorr ==
    \/ CorrTril
    \/ CorrRemoveDiagonal
    \/ CorrFlatten
    \/ CorrIndex

SpecCorr == InitCorr /\ [][NextCorr]_vars

\* -------------------------------------------------------------------- main
\* str.lower().
UpperCase == "ABCDEFGHIJKLMNOPQRSTUVWXYZ"
LowerCase == "abcdefghijklmnopqrstuvwxyz"
LowerChar(c) ==
    LET I == {i \in 1..Len(UpperCase) : SubSeq(UpperCase, i, i) = c}
    IN  IF I = {} THEN c ELSE LET i == CHOOSE i \in I : TRUE IN SubSeq(LowerCase, i, i)
RECURSIVE Lower(_)
Lower(s) == IF s = "" THEN "" ELSE Lower(DropLast(s, 1)) \o LowerChar(SubSeq(s, Len(s), Len(s)))

\* What platform.system() and shutil.which can find.
Hosts == [platform : {"Linux", "Windows"}, fslmeants : BOOLEAN, wb_command : BOOLEAN]

\* sys.exit(1) of the three checks, and the status of argparse's error.
ExitFailure == 1
ExitUsage == 2

\* No command line has been parsed.
NoArgs == [out_prefix |-> "", thresh |-> 0, dryrun |-> FALSE, keep_tmp_dir |-> FALSE,
           stdout |-> ""]
\* main calls corr_comp with stdout="".
CliArgs == [out_prefix : OutPrefixes, thresh : Thresholds, dryrun : BOOLEAN,
            keep_tmp_dir : BOOLEAN, stdout : {""}]

\* The three checks of main, in order: any of them ends in sys.exit(1).
ChecksFailFslOnly(h) == Lower(h.platform) = "windows" \/ ~h.fslmeants
ChecksFail(h) ==
    \/ Lower(h.platform) = "windows"
    \/ ~h.fslmeants
    \/ ~h.wb_command

InitMain ==
    /\ host \in Hosts
    /\ args = NoArgs
    /\ pc = "main"
    /\ call = "none"
    /\ step = "idle"
    /\ wrapper = "none"
    /\ cmd = NoCmd
    /\ ctn = NoCtn
    /\ runRet = NoRet
    /\ exit_status = 0
    /\ cwd = StartDir
    /\ dirs \in {{"/", StartDir} \cup D : D \in SUBSET OptionalDirs}
    /\ files = IF OldTmpDir \in dirs THEN Put(NoFiles, OldFile, "old") ELSE NoFiles
    /\ loc = NoLoc
    /\ exc = "none"
    /\ runs = <<>>
    /\ written = <<>>
    /\ ret = NoResult
    /\ cstage = "off"
    /\ cmat = <<>>
    /\ cval = <<>>
    /\ exit_code = NoExit
    /\ environ = BaseEnv
    /\ spawnEnvs = <<>>

MainChecks ==
    /\ pc = "main"
    /\ IF ChecksFail(host)
       THEN /\ exit_code' = ExitFailure
            /\ pc' = "exit"
       ELSE /\ exit_code' = exit_code
            /\ pc' = "parse"
    /\ UNCHANGED <<args, call, step, wrapper, cmd, ctn, runRet, exit_status, cwd,
                   dirs, files, loc, exc, runs, written, ret, cvars, host, evars>>

\* parser.parse_args(): the arguments, or argparse's exit on a bad command
\* line; then corr_comp is called.
MainParse ==
    /\ pc = "parse"
    /\ \/ /\ exit_code' = ExitUsage
          /\ pc' = "exit"
          /\ args' = args
       \/ /\ args' \in CliArgs
          /\ pc' = "resolve"
          /\ exit_code' = exit_code
    /\ UNCHANGED <<call, step, wrapper, cmd, ctn, runRet, exit_status, cwd,
                   dirs, files, loc, exc, runs, written, ret, cvars, host, evars>>

NextMain ==
    \/ MainChecks
    \/ MainParse
    \/ Next

SpecMain == InitMain /\ [][NextMain]_vars

\* ------------------------------------------- Command.run's environment
EnvKeys == {"PATH", "FSLOUTPUTTYPE"}
EnvChoices(k) == IF k = "PATH" THEN {"/usr/bin", "/opt/fsl/bin"} ELSE {"NIFTI", "NIFTI_GZ"}
\* The env argument: None or a dict, the empty function standing for both.
Overrides ==
    UNION {{f \in [K -> UNION {EnvChoices(k) : k \in EnvKeys}] :
                \A k \in K : f[k] \in EnvChoices(k)} : K \in SUBSET EnvKeys}

\* dict.update
Update(d, o) == [k \in DOMAIN d \cup DOMAIN o |-> IF k \in DOMAIN o THEN o[k] ELSE d[k]]

\* `merged_env = os.environ`, then `if env: merged_env.update(env)`:
\* merged_env is os.environ itself, so the update is made to os.environ.
MergedEnv(osenv, env) == IF DOMAIN env # {} THEN Update(osenv, env) ELSE osenv

InitEnv ==
    /\ environ = BaseEnv
    /\ spawnEnvs = <<>>
    /\ host = GoodHost
    /\ exit_code = NoExit
    /\ args = NoArgs
    /\ pc = "off"
    /\ call = "none"
    /\ step = "idle"
    /\ wrapper = "none"
    /\ cmd = NoCmd
    /\ ctn = NoCtn
    /\ runRet = NoRet
    /\ exit_status = 0
    /\ cwd = StartDir
    /\ dirs = {"/", StartDir}
    /\ files = NoFiles
    /\ loc = NoLoc
    /\ exc = "none"
    /\ runs = <<>>
    /\ written = <<>>
    /\ ret = NoResult
    /\ cstage = "off"
    /\ cmat = <<>>
    /\ cval = <<>>

\* One Command.run call that spawns its process, with the env it is given:
\* the subprocess gets merged_env, and os.environ is what merged_env names.
RunWithEnv ==
    /\ Len(spawnEnvs) < MaxEnvRuns
    /\ \E env \in Overrides :
        /\ environ' = MergedEnv(environ, env)
        /\ spawnEnvs' = Append(spawnEnvs, [env |-> env, given |-> MergedEnv(environ, env)])
    /\ UNCHANGED <<pvars, cvars, mvars>>

NextEnv ==
    \/ RunWithEnv

SpecEnv == InitEnv /\ [][NextEnv]_vars

\* ================================================================== claims
Exited == pc \in {"done", "raised"}

ClusterRuns == {i \in 1..Len(runs) : runs[i].prog = "cluster"}

\* The CIFTI file that the raster `nii` read by run i was converted from: the
\* input of the latest wb_command run before i that wrote `nii`.
ConvertedFrom(i, nii) ==
    LET J == {j \in 1..(i - 1) : runs[j].prog = "wb_command" /\ runs[j].out = nii}
    IN  IF J = {} THEN "" ELSE runs[CHOOSE j \in J : \A h \in J : h <= j].input

\* cifti_to_nifti has just returned, and ctn holds the locals of that call.
BridgeReturned ==
    /\ pc \in {"seed", "stat"}
    /\ step = "idle"
    /\ call \in {"mask", "meants"}

TmpPath == Abspath(ctn.out_tmp, cwd)
OutPath == Abspath(ctn.out, cwd)

\* C1: on every exit of corr_comp, by return or by exception, the current
\* working directory is the one at the moment of the call.
C1_CwdRestoredOnEveryExit == Exited => cwd = StartDir

\* C2: the working directory is created under the directory component of
\* out_prefix when it has one, and under the current directory only when it
\* has none.
C2_WorkDirUnderOutputDir ==
    loc.tmp_dir # "" =>
        Dirname(loc.tmp_dir) =
            (IF Dirname(args.out_prefix) = "" THEN StartDir
             ELSE Abspath(Dirname(args.out_prefix), StartDir))

\* C3: in a dry run Command.run spawns no process and writes no file, and no
\* wrapper that calls it raises.
C3_DryRunIsNoOp ==
    args.dryrun =>
        /\ \A i \in 1..Len(runs) : ~runs[i].spawned
        /\ DOMAIN files \subseteq {OldFile}
        /\ exc = "none"

\* C4 as claimed: the thresholding command of the stat branch takes as input
\* the raster converted from the timeseries.
C4_ThresholdOnTimeseries ==
    \A i \in ClusterRuns : ConvertedFrom(i, runs[i].input) = loc.cii

\* C4 as amended: the thresholding command runs in the stat branch with the
\* caller's threshold on the raster converted from the stat mask; the
\* extractor of the stat branch then reads the timeseries raster, converted
\* without a threshold, against that thresholded mask.
C4_ThresholdOnStatMask ==
    /\ \A i \in ClusterRuns :
        /\ runs[i].phase = "stat"
        /\ runs[i].thresh = args.thresh
        /\ ConvertedFrom(i, runs[i].input) = loc.stat_mask
        /\ runs[i].out = "mask.stat.mask.nii.gz"
    /\ \A i \in 1..Len(runs) :
        (runs[i].prog = "fslmeants" /\ runs[i].phase = "stat") =>
            /\ runs[i].input = "mask.stat.nii.gz"
            /\ runs[i].mask = "mask.stat.mask.nii.gz"
            /\ ConvertedFrom(i, OutTmp(runs[i].input)) = loc.cii
            /\ args.thresh # 0 =>
                   \E j \in ClusterRuns : j < i /\ runs[j].out = runs[i].mask
    /\ (pc = "correlate" /\ args.thresh # 0
            /\ Abspath("mask.stat.mat.txt", cwd) \in DOMAIN files) =>
        \/ files[Abspath("mask.stat.mat.txt", cwd)] = Incomplete
        \/ \E a \in {Nifti(loc.cii), Incomplete} :
           \E b \in {Clustered(Nifti(loc.stat_mask), args.thresh),
                     Clustered(Incomplete, args.thresh), Incomplete} :
               files[Abspath("mask.stat.mat.txt", cwd)] = MeanTs(a, b)

C4_Witness ==
    /\ pc = "correlate"
    /\ args.thresh # 0
    /\ Abspath("mask.stat.mat.txt", cwd) \in DOMAIN files
    /\ files[Abspath("mask.stat.mat.txt", cwd)] =
           MeanTs(Nifti(loc.cii), Clustered(Nifti(loc.stat_mask), args.thresh))

\* C5: the thresholding command never runs in the seed step; in one pipeline
\* run it runs at most once, in the stat step, and only with a truthy
\* threshold.
C5_NoThresholdInSeed ==
    /\ Cardinality(ClusterRuns) <= 1
    /\ \A i \in ClusterRuns : runs[i].phase = "stat" /\ args.thresh # 0
    /\ pc = "seed" => ClusterRuns = {}

C5_Witness ==
    /\ pc = "done"
    /\ args.thresh # 0
    /\ Cardinality(ClusterRuns) = 1
    /\ \E i \in 1..Len(runs) : runs[i].phase = "seed" /\ runs[i].prog = "fslmeants"

\* What the wrapper does once Command.run has returned a tuple: the same
\* whatever the exit code in it.
ContinuesAsAfterZero ==
    /\ exit_status' = runRet.rc
    /\ wrapper = "cifti_to_nifti" =>
        IF ctn.thresh # 0
        THEN wrapper' = "threshold_cifti" /\ step' = "run" /\ pc' = pc /\ exc' = "none"
        ELSE IF TmpPath \in DOMAIN files
        THEN call' = NextCall(call) /\ step' = "idle" /\ pc' = pc /\ exc' = "none"
        ELSE exc' = "FileNotFoundError"
    /\ wrapper = "threshold_cifti" =>
        call' = NextCall(call) /\ step' = "idle" /\ pc' = pc /\ exc' = "none"
    /\ wrapper = "meants" =>
        /\ step' = "idle"
        /\ pc' = (IF pc = "seed" THEN "stat" ELSE "correlate")
        /\ exc' = "none"

\* C6: Command.run of a spawned process returns to its caller without
\* raising, whatever the exit code, and the wrapper then goes on to its next
\* step without looking at the exit code.
C6_NonZeroExitDoesNotRaise ==
    /\ [][(pc \in {"seed", "stat"} /\ step = "run" /\ ~args.dryrun) =>
            /\ step' = "ret"
            /\ runRet'.kind = "tuple"
            /\ pc' = pc
            /\ wrapper' = wrapper
            /\ exc' = "none"]_vars
    /\ [][(pc \in {"seed", "stat"} /\ step = "ret" /\ runRet.kind = "tuple") =>
            ContinuesAsAfterZero]_vars

C6_Witness ==
    /\ pc \in {"seed", "stat", "correlate"}
    /\ step = "idle"
    /\ wrapper = "none"
    /\ exit_status # 0
    /\ exc = "none"

\* C7: after corr_comp returns, the working directory is the one before the
\* call, and the staged directory exists exactly when keep_tmp_dir was set;
\* without it the directory and every file under it are gone.
C7_ReturnState ==
    pc = "done" =>
        /\ cwd = StartDir
        /\ loc.tmp_dir \in dirs <=> args.keep_tmp_dir
        /\ ~args.keep_tmp_dir => \A f \in DOMAIN files : ~Under(loc.tmp_dir, f)

C7_Witness ==
    /\ pc = "done"
    /\ ~args.keep_tmp_dir
    /\ loc.tmp_dir \notin dirs
    /\ cwd = StartDir

\* The number a text of str(float) stands for, in thousandths.
Digit(c) == CHOOSE d \in 0..9 : ToString(d) = c
RECURSIVE DigitsVal(_)
DigitsVal(s) ==
    IF s = "" THEN 0
    ELSE DigitsVal(DropLast(s, 1)) * 10 + Digit(SubSeq(s, Len(s), Len(s)))
ParseFloat(s) ==
    IF s = "nan" THEN NaN
    ELSE LET neg  == StartsWith(s, "-")
             body == IF neg THEN SubSeq(s, 2, Len(s)) ELSE s
             dot  == RFind1(body, ".")
             ip   == SubSeq(body, 1, dot - 1)
             fp   == SubSeq(body, dot + 1, Len(body))
             v    == DigitsVal(ip) * 1000
                     + DigitsVal(fp) * (IF Len(fp) = 1 THEN 100
                                        ELSE IF Len(fp) = 2 THEN 10 ELSE 1)
         IN  IF neg THEN 0 - v ELSE v

\* C8: a pipeline run that returns has written the result exactly once, to
\* out_prefix followed by ".pear_corr.txt", and what it wrote is the scalar it
\* returns; no run writes it more than once.
C8_ResultWrittenOnce ==
    /\ Len(written) <= 1
    /\ pc # "done" => Len(written) = 0
    /\ pc = "done" =>
        /\ Len(written) = 1
        /\ written[1].out_file = args.out_prefix \o ".pear_corr.txt"
        /\ ret.text_file = written[1].out_file
        /\ Abspath(ret.text_file, StartDir) \in DOMAIN files
        /\ files[Abspath(ret.text_file, StartDir)] = written[1].text
        /\ SubSeq(written[1].text, Len(written[1].text), Len(written[1].text)) = "\n"
        /\ ParseFloat(DropLast(written[1].text, 1)) = ret.corr_coeff

C8_Witness ==
    /\ pc = "done"
    /\ Len(written) = 1
    /\ ret.corr_coeff = 250
    /\ files[Abspath(ret.text_file, StartDir)] = "0.25\n"

\* The latest Command.run call is the conversion of this cifti_to_nifti call:
\* no thresholding command followed it.
EndedWithConversion ==
    /\ runs # <<>>
    /\ runs[Len(runs)].prog = "wb_command"
    /\ runs[Len(runs)].input = ctn.cii
    /\ runs[Len(runs)].out = ctn.out_tmp

\* The latest Command.run call is the thresholding command, reading the
\* intermediate raster of this call and writing its output path, right after
\* the conversion.
EndedWithThreshold ==
    /\ Len(runs) >= 2
    /\ runs[Len(runs)].prog = "cluster"
    /\ runs[Len(runs)].input = ctn.out_tmp
    /\ runs[Len(runs)].out = ctn.out
    /\ runs[Len(runs)].thresh = ctn.thresh
    /\ runs[Len(runs) - 1].prog = "wb_command"
    /\ runs[Len(runs) - 1].out = ctn.out_tmp

\* C9 as claimed: with a falsy threshold the output is the intermediate raster
\* renamed; with a truthy one the thresholding command reads the intermediate
\* and writes the output, and the intermediate is discarded.
C9_IntermediateDiscarded ==
    BridgeReturned =>
        IF ctn.thresh # 0
        THEN EndedWithThreshold /\ TmpPath \notin DOMAIN files
        ELSE /\ EndedWithConversion
             /\ TmpPath \notin DOMAIN files
             /\ OutPath \in DOMAIN files

\* C9 as amended: the thresholding command is invoked exactly when the
\* threshold is truthy.  With a falsy threshold the output is the
\* intermediate raster renamed verbatim.  With a truthy one the thresholding
\* command reads the intermediate and writes the output, and the intermediate
\* stays on disk under its temporary name, as the conversion left it.
C9_IntermediateKept ==
    /\ [](BridgeReturned =>
            IF ctn.thresh # 0
            THEN /\ EndedWithThreshold
                 /\ OutPath \in DOMAIN files =>
                        /\ TmpPath \in DOMAIN files
                        /\ files[OutPath] \in {Clustered(files[TmpPath], ctn.thresh),
                                               Incomplete}
                 /\ TmpPath \in DOMAIN files =>
                        files[TmpPath] \in {Nifti(ctn.cii), Incomplete}
            ELSE /\ EndedWithConversion
                 /\ TmpPath \notin DOMAIN files
                 /\ OutPath \in DOMAIN files
                 /\ files[OutPath] \in {Nifti(ctn.cii), Incomplete})
    /\ [][(wrapper = "cifti_to_nifti" /\ step = "ret" /\ step' = "idle") =>
            /\ ctn.thresh = 0
            /\ files'[OutPath] = files[TmpPath]]_vars
    /\ [][(wrapper = "threshold_cifti" /\ pc \in {"seed", "stat"}) =>
            /\ (TmpPath \in DOMAIN files) = (TmpPath \in DOMAIN files')
            /\ TmpPath \in DOMAIN files => files'[TmpPath] = files[TmpPath]]_vars

C9_Witness ==
    /\ BridgeReturned
    /\ ctn.thresh # 0
    /\ TmpPath \in DOMAIN files
    /\ files[TmpPath] = Nifti(ctn.cii)
    /\ OutPath \in DOMAIN files
    /\ files[OutPath] = Clustered(Nifti(ctn.cii), ctn.thresh)

\* C10: for every 2x2 matrix C, the lower triangle with the diagonal, then
\* remove_diagonal, then the row-major flattening, then the element at index
\* 1, is C[1][0].
C10_ExtractsOffDiagonal ==
    cstage = "coeff" =>
        /\ cval = cmat[2][1]
        /\ PearsonExtract(cmat) = cmat[2][1]

C10_Witness ==
    /\ cstage = "coeff"
    /\ cmat[2][1] = MaxEntry
    /\ cmat[1][2] = 0 - MaxEntry
    /\ cmat[1][1] = 1
    /\ cmat[2][2] = 0 - 1
    /\ cval = MaxEntry

\* The host fails one of main's preconditions.
HostUnfit == host.platform = "Windows" \/ ~host.fslmeants \/ ~host.wb_command

\* C11: on the unsupported platform, or with fslmeants or wb_command missing
\* from the path, main exits with status 1 before any work: no argument is
\* parsed, no working directory is created, no process is spawned and no
\* result file is written.
C11_ExitsBeforeAnyWork ==
    HostUnfit =>
        /\ pc \in {"main", "exit"}
        /\ pc = "exit" => exit_code = 1
        /\ args = NoArgs
        /\ loc = NoLoc
        /\ cwd = StartDir
        /\ runs = <<>>
        /\ written = <<>>
        /\ dirs \subseteq {"/", StartDir} \cup OptionalDirs
        /\ DOMAIN files \subseteq {OldFile}

C11_Witness ==
    /\ pc = "exit"
    /\ exit_code = 1
    /\ host.platform = "Linux"
    /\ host.fslmeants
    /\ ~host.wb_command
    /\ args = NoArgs
    /\ runs = <<>>

\* The Command.run calls a pipeline run makes, in order: the seed branch, then
\* the stat branch; in each the conversion of the timeseries, the conversion
\* of the mask, the thresholding command if the branch has a threshold, then
\* the extraction.
BranchRuns(branch, mask, thresh) ==
    <<[prog |-> "wb_command", input |-> loc.cii,
       out |-> "mask." \o branch \o ".tmp.nii.gz", phase |-> branch],
      [prog |-> "wb_command", input |-> mask,
       out |-> "mask." \o branch \o ".mask.tmp.nii.gz", phase |-> branch]>>
    \o (IF thresh # 0
        THEN <<[prog |-> "cluster", input |-> "mask." \o branch \o ".mask.tmp.nii.gz",
                out |-> "mask." \o branch \o ".mask.nii.gz", phase |-> branch]>>
        ELSE <<>>)
    \o <<[prog |-> "fslmeants", input |-> "mask." \o branch \o ".nii.gz",
          out |-> "mask." \o branch \o ".mat.txt", phase |-> branch]>>

ExpectedRuns ==
    BranchRuns("seed", loc.seed_mask, 0) \o BranchRuns("stat", loc.stat_mask, args.thresh)

RunOf(r) == [prog |-> r.prog, input |-> r.input, out |-> r.out, phase |-> r.phase]

\* C12: the steps of a pipeline run occur in one fixed order: every command
\* of the seed branch before any of the stat branch, the correlation after
\* both extractions have returned, the deletion of the working directory
\* after the correlation, and the write of the result file after the prior
\* working directory is restored.
C12_FixedOrder ==
    /\ [](/\ Len(runs) <= Len(ExpectedRuns)
          /\ \A i \in 1..Len(runs) : RunOf(runs[i]) = ExpectedRuns[i])
    /\ [](pc \in {"correlate", "cleanup", "persist", "done"} =>
            /\ Len(runs) = Len(ExpectedRuns)
            /\ step = "idle"
            /\ loc.mean_ts_1 = "mask.seed.mat.txt"
            /\ loc.mean_ts_2 = "mask.stat.mat.txt")
    /\ [][(step = "run" /\ runs' # runs) => step' # "run"]_vars
    /\ [][(loc.tmp_dir \in dirs /\ loc.tmp_dir \notin dirs') => pc = "cleanup"]_vars
    /\ [][written' # written => (pc = "persist" /\ cwd = StartDir)]_vars

C12_Witness ==
    /\ pc = "done"
    /\ args.thresh # 0
    /\ Len(runs) = 7
    /\ loc.tmp_dir \notin dirs
    /\ Len(written) = 1

\* C13: an exception that escapes Extract-Seed, Extract-Stat or Correlate
\* ends the pipeline there: no later step runs, the working directory stays
\* on disk whatever keep_tmp_dir says, and the result file is not written.
C13_AbortSkipsLaterSteps ==
    /\ [][(pc \in {"seed", "stat", "correlate"} /\ exc' # "none") =>
            /\ pc' = "raised"
            /\ loc.tmp_dir \in dirs'
            /\ written' = <<>>
            /\ Abspath(args.out_prefix \o ".pear_corr.txt", StartDir) \notin DOMAIN files'
          ]_vars
    /\ [][pc # "raised"]_vars

C13_Witness ==
    /\ pc = "raised"
    /\ exc = "ValueError"
    /\ ~args.keep_tmp_dir
    /\ loc.tmp_dir \in dirs
    /\ written = <<>>

\* C14: a directory that existed under the chosen working-directory name
\* before the call, and its prior contents, are never deleted by the call.
C14_PriorDirectoryKept ==
    [][(OldFile \in DOMAIN files) =>
            (/\ OldTmpDir \in dirs'
             /\ OldFile \in DOMAIN files'
             /\ files[OldFile] = files'[OldFile])]_vars

\* C15: after Command.run returns, the environment of the calling process is
\* what it was before the call, and a call without overrides gives its
\* subprocess the inherited environment.
C15_EnvironUnchanged ==
    /\ environ = BaseEnv
    /\ \A i \in 1..Len(spawnEnvs) :
        DOMAIN spawnEnvs[i].env = {} => spawnEnvs[i].given = BaseEnv
====
